---- MODULE Spec2Model ----
(***************************************************************************)
(* Model of the luna-code element (lunadom/components/code/code.js):       *)
(* the dedenter, the tokenizer, the escaper, the line builder and the      *)
(* element's lifecycle and copy action.                                    *)
(*                                                                         *)
(* A JavaScript string is a sequence of one-character strings.  Indices    *)
(* in the operators below are JavaScript's (0-based); the markup the       *)
(* tokenizer builds is a sequence whose items are either characters of     *)
(* (escaped) text or one of the literal span wrappers of the templates.    *)
(***************************************************************************)
EXTENDS Integers, Sequences, FiniteSets, TLC

VARIABLES
    \* --- the pipeline of _setup, stepped through (SpecPipe) ---
    x,          \* the raw source text (this._originalCode)
    code,       \* const code = this._dedent(...).trim()
    i,          \* _tokenize: the cursor
    out,        \* _tokenize: the markup built so far
    toks,       \* the tokens emitted so far: [kind, raw, start, next, markup]
    lines,      \* the line records the built markup parses to
    noLines,    \* hasAttribute('no-lines')
    pc,         \* position in the pipeline
    \* --- _dedent applied twice (SpecDedent) ---
    dx, d1, d2, dpc,
    \* --- the luna-code element (Spec) ---
    textContent,    \* this.textContent: the text of the element's light DOM
    originalCode,   \* this._originalCode
    isRendered,     \* this._isRendered
    connected,      \* whether the element is in a document
    attrs,          \* the element's attributes: name -> value, Null if absent
    dom,            \* the shadow tree: codeEl's line records, the badge's
                    \* text, the toolbar's hidden class, the copy button's
                    \* text and copied class, its click listeners
    writes,         \* the texts of the clipboard writes not yet settled
    timers,         \* the number of pending setTimeout reset callbacks
    clipboard,      \* the text on the clipboard, Null before any write
    written,        \* the texts of the clipboard writes that succeeded, in order
    events,         \* the luna-copy events dispatched: their detail.code
    clicks          \* the number of clicks on the copy button so far

pipeVars == <<x, code, i, out, toks, lines, noLines, pc>>
dedentVars == <<dx, d1, d2, dpc>>
elemVars == <<textContent, originalCode, isRendered, connected, attrs, dom,
              writes, timers, clipboard, written, events, clicks>>
vars == <<pipeVars, dedentVars, elemVars>>

----------------------------------------------------------------------------
(* Bounds of the model *)

\* longest generated source text of the pipeline
MaxLen == 4
\* longest generated text handed to _dedent alone
MaxDedentLen == 6
\* longest generated text content of the element
MaxSrcLen == 2
\* most clicks on the copy button in one behaviour
MaxClicks == 2

----------------------------------------------------------------------------
(* JavaScript string primitives *)

Min(S) == CHOOSE m \in S : \A n \in S : m <= n

Strings(A, n) == UNION {[1..k -> A] : k \in 0..n}

\* the value of a failed regular-expression match
Null == <<"null">>

\* src[k] || '' and src[k] compared with a character: '' out of range
CharAt(s, k) == IF k >= 0 /\ k < Len(s) THEN s[k + 1] ELSE ""

\* String.prototype.slice(a, b) for a, b >= 0
Slice(s, a, b) ==
    LET lo == IF a > Len(s) THEN Len(s) ELSE a
        hi == IF b > Len(s) THEN Len(s) ELSE b
    IN  IF hi <= lo THEN <<>> ELSE SubSeq(s, lo + 1, hi)

SliceFrom(s, a) == Slice(s, a, Len(s))

\* String.prototype.indexOf(pat, from): the first k >= from where pat occurs
IndexOf(s, pat, from) ==
    LET hits == {k \in from..(Len(s) - Len(pat)) :
                    \A n \in 1..Len(pat) : s[k + n] = pat[n]}
    IN  IF hits = {} THEN -1 ELSE Min(hits)

RECURSIVE Split(_, _)
\* String.prototype.split(sep) for a one-character separator
Split(s, sep) ==
    LET k == IndexOf(s, <<sep>>, 0)
    IN  IF k = -1 THEN <<s>>
        ELSE <<Slice(s, 0, k)>> \o Split(SliceFrom(s, k + 1), sep)

RECURSIVE Join(_, _)
\* Array.prototype.join(sep)
Join(parts, sep) ==
    IF Len(parts) = 0 THEN <<>>
    ELSE IF Len(parts) = 1 THEN parts[1]
    ELSE parts[1] \o sep \o Join(Tail(parts), sep)

RECURSIVE Flatten(_)
Flatten(parts) ==
    IF Len(parts) = 0 THEN <<>> ELSE parts[1] \o Flatten(Tail(parts))

\* the characters String.prototype.trim and the class \s take for white space
\* (those of them the model's texts use)
WhiteSpace == {" ", "\t", "\n", "\r", "\f"}

RECURSIVE TrimStart(_)
TrimStart(s) ==
    IF Len(s) > 0 /\ s[1] \in WhiteSpace THEN TrimStart(Tail(s)) ELSE s

RECURSIVE TrimEnd(_)
TrimEnd(s) ==
    IF Len(s) > 0 /\ s[Len(s)] \in WhiteSpace
    THEN TrimEnd(SubSeq(s, 1, Len(s) - 1)) ELSE s

\* String.prototype.trim
Trim(s) == TrimEnd(TrimStart(s))

----------------------------------------------------------------------------
(* _dedent *)

\* !l.trim()
IsBlankLine(l) == Trim(l) = <<>>

\* if (...) lines.shift() : at most one leading blank line is dropped
ShiftBlankMut(ls) ==
    IF Len(ls) > 0 /\ IsBlankLine(ls[1]) THEN Tail(ls) ELSE ls

RECURSIVE ShiftBlank(_)
\* while (lines.length && !lines[0].trim()) lines.shift()
ShiftBlank(ls) ==
    IF Len(ls) > 0 /\ IsBlankLine(ls[1]) THEN ShiftBlank(Tail(ls)) ELSE ls

RECURSIVE PopBlank(_)
\* while (lines.length && !lines[lines.length - 1].trim()) lines.pop()
PopBlank(ls) ==
    IF Len(ls) > 0 /\ IsBlankLine(ls[Len(ls)])
    THEN PopBlank(SubSeq(ls, 1, Len(ls) - 1)) ELSE ls

\* l.match(/^(\s+)/) : no match on a line that starts with a non-space character
LeadingMatchMut(l) ==
    IF Len(l) - Len(TrimStart(l)) = 0 THEN Null
    ELSE <<Slice(l, 0, Len(l) - Len(TrimStart(l)))>>

\* l.match(/^(\s*)/) : the array of capture groups, or Null when no match
LeadingMatch(l) == <<Slice(l, 0, Len(l) - Len(TrimStart(l)))>>

\* l.match(/^(\s*)/)[1].length of the non-blank lines
LeadingLengths(ls) ==
    {Len(LeadingMatch(ls[k])[1]) : k \in {n \in 1..Len(ls) : ~IsBlankLine(ls[n])}}

\* reading [1] of a failed match throws a TypeError
DedentThrows(str) ==
    LET ls == PopBlank(ShiftBlank(Split(str, "\n")))
    IN  \E k \in 1..Len(ls) : ~IsBlankLine(ls[k]) /\ LeadingMatch(ls[k]) = Null

\* one character more than the least indentation
IndentPlusOne(ls) == Min(LeadingLengths(ls)) + 1

\* the indentation of the first remaining line taken for that of all
IndentFirstLine(ls) == Len(LeadingMatch(ls[1])[1])

\* Math.min(...lengths)
Indent(ls) == Min(LeadingLengths(ls))

\* _dedent(str), when it does not throw
Dedent(str) ==
    LET ls == PopBlank(ShiftBlank(Split(str, "\n")))
    IN  IF Len(ls) = 0 THEN <<>>
        ELSE Join([k \in 1..Len(ls) |-> SliceFrom(ls[k], Indent(ls))], <<"\n">>)

----------------------------------------------------------------------------
(* _escape *)

RECURSIVE ReplaceAll(_, _, _)
\* str.replace(/c/g, rep)
ReplaceAll(s, c, rep) ==
    IF Len(s) = 0 THEN <<>>
    ELSE (IF s[1] = c THEN rep ELSE <<s[1]>>) \o ReplaceAll(Tail(s), c, rep)

Amp == <<"&", "a", "m", "p", ";">>
Lt == <<"&", "l", "t", ";">>
Gt == <<"&", "g", "t", ";">>

\* & and < replaced, > left as it is
EscapeNoGt(str) == ReplaceAll(ReplaceAll(str, "&", Amp), "<", Lt)

\* the three replacements with that of & made last: the & of the references
\* written for < and > is replaced again
EscapeAmpLast(str) ==
    ReplaceAll(ReplaceAll(ReplaceAll(str, "<", Lt), ">", Gt), "&", Amp)

\* _escape(str)
Escape(str) == ReplaceAll(ReplaceAll(ReplaceAll(str, "&", Amp), "<", Lt), ">", Gt)

----------------------------------------------------------------------------
(* The literal pieces of the markup templates *)

SpanOpen(cls) == "<span class=\"" \o cls \o "\">"
SpanClose == "</span>"
SpanBare == "<span>"
Wrappers == {SpanOpen(c) : c \in {"cm", "tg", "str", "pl", "line", "ln"}}
                \cup {SpanClose, SpanBare}

\* `<span class="${cls}">${this._escape(part)}</span>`
Span(cls, part) == <<SpanOpen(cls)>> \o Escape(part) \o <<SpanClose>>

\* the raw text wrapped in one span, its newlines left inside the span
SpanMultilineMut(raw, cls) == Span(cls, raw)

\* _spanMultiline(raw, cls)
SpanMultiline(raw, cls) ==
    LET parts == Split(raw, "\n")
    IN  Join([k \in 1..Len(parts) |-> Span(cls, parts[k])], <<"\n">>)

----------------------------------------------------------------------------
(* _tokenize and _colorTag *)

Letters == {"a", "b", "c", "d", "e", "f", "g", "h", "i", "j", "k", "l", "m",
            "n", "o", "p", "q", "r", "s", "t", "u", "v", "w", "x", "y", "z",
            "A", "B", "C", "D", "E", "F", "G", "H", "I", "J", "K", "L", "M",
            "N", "O", "P", "Q", "R", "S", "T", "U", "V", "W", "X", "Y", "Z"}

RECURSIVE StringEndMut(_, _, _)
\* while (j < len && src[j] !== quote) j++ : a backslash escapes nothing
StringEndMut(s, j, quote) ==
    IF j < Len(s) /\ CharAt(s, j) # quote THEN StringEndMut(s, j + 1, quote) ELSE j

RECURSIVE StringEndSkipTwo(_, _, _)
\* the scan of a string with a backslash escaping the two characters after it
StringEndSkipTwo(s, j, quote) ==
    IF j < Len(s) /\ CharAt(s, j) # quote
    THEN StringEndSkipTwo(s, (IF CharAt(s, j) = "\\" THEN j + 2 ELSE j) + 1, quote)
    ELSE j

RECURSIVE StringEnd(_, _, _)
\* while (j < len && src[j] !== quote) { if (src[j] === '\\') j++; j++; }
StringEnd(s, j, quote) ==
    IF j < Len(s) /\ CharAt(s, j) # quote
    THEN StringEnd(s, (IF CharAt(s, j) = "\\" THEN j + 1 ELSE j) + 1, quote)
    ELSE j

RECURSIVE ColorTagLoopMut(_, _, _)
\* the loop of _colorTag with the newline branch writing the newline alone:
\* the tg span is left open across the line break
ColorTagLoopMut(tagSrc, k, acc) ==
    IF ~(k < Len(tagSrc)) THEN acc
    ELSE LET ch == CharAt(tagSrc, k)
         IN  IF ch = "\n"
             THEN ColorTagLoopMut(tagSrc, k + 1, acc \o <<"\n">>)
             ELSE IF ch = "\"" \/ ch = "'"
             THEN LET j == StringEnd(tagSrc, k + 1, ch)
                      strRaw == Slice(tagSrc, k, j + 1)
                  IN  ColorTagLoopMut(tagSrc, j + 1,
                                      acc \o <<SpanClose>> \o SpanMultiline(strRaw, "str")
                                          \o <<SpanOpen("tg")>>)
             ELSE ColorTagLoopMut(tagSrc, k + 1, acc \o Escape(<<ch>>))

RECURSIVE ColorTagLoop(_, _, _)
\* the loop of _colorTag
ColorTagLoop(tagSrc, k, acc) ==
    IF ~(k < Len(tagSrc)) THEN acc
    ELSE LET ch == CharAt(tagSrc, k)
         IN  IF ch = "\n"
             THEN ColorTagLoop(tagSrc, k + 1,
                               acc \o <<SpanClose, "\n", SpanOpen("tg")>>)
             ELSE IF ch = "\"" \/ ch = "'"
             THEN LET j == StringEnd(tagSrc, k + 1, ch)
                      strRaw == Slice(tagSrc, k, j + 1)
                  IN  ColorTagLoop(tagSrc, j + 1,
                                   acc \o <<SpanClose>> \o SpanMultiline(strRaw, "str")
                                       \o <<SpanOpen("tg")>>)
             ELSE ColorTagLoop(tagSrc, k + 1, acc \o Escape(<<ch>>))

\* _colorTag(tagSrc)
ColorTag(tagSrc) == ColorTagLoop(tagSrc, 0, <<SpanOpen("tg")>>) \o <<SpanClose>>

\* a tag with no '>' after it taken to run to the end of the text
TagEndMut(src, k) ==
    IF IndexOf(src, <<">">>, k) = -1 THEN Len(src) - 1 ELSE IndexOf(src, <<">">>, k)

\* const end = src.indexOf('>', i)  (the tag rule)
TagEnd(src, k) == IndexOf(src, <<">">>, k)

\* the branches of _tokenize with the tag rule tried before the rule of the
\* HTML comment
RuleMut(src, k) ==
    LET ch == CharAt(src, k)
        nx == CharAt(src, k + 1)
    IN  IF ch = "/" /\ nx = "/" THEN "LineComment"
        ELSE IF ch = "/" /\ nx = "*" THEN "BlockComment"
        ELSE IF ch = "<" /\ (nx = "/" \/ nx \in Letters \cup {"!"})
                /\ TagEnd(src, k) # -1 THEN "Tag"
        ELSE IF ch = "<" /\ Slice(src, k, k + 4) = <<"<", "!", "-", "-">>
             THEN "HtmlComment"
        ELSE IF ch = "\"" \/ ch = "'" THEN "String"
        ELSE IF ch = "\n" THEN "Newline"
        ELSE "Plain"

\* which branch of the loop body of _tokenize is taken at cursor k
Rule(src, k) ==
    LET ch == CharAt(src, k)
        nx == CharAt(src, k + 1)
    IN  IF ch = "/" /\ nx = "/" THEN "LineComment"
        ELSE IF ch = "/" /\ nx = "*" THEN "BlockComment"
        ELSE IF ch = "<" /\ Slice(src, k, k + 4) = <<"<", "!", "-", "-">>
             THEN "HtmlComment"
        ELSE IF ch = "<" /\ (nx = "/" \/ nx \in Letters \cup {"!"})
                /\ TagEnd(src, k) # -1 THEN "Tag"
        ELSE IF ch = "\"" \/ ch = "'" THEN "String"
        ELSE IF ch = "\n" THEN "Newline"
        ELSE "Plain"

Tok(kind, raw, markup, start, next) ==
    [kind |-> kind, raw |-> raw, markup |-> markup, start |-> start, next |-> next]

\* a line comment that takes in the newline that ends it
LineCommentTokMut(src, k) ==
    LET end == IndexOf(src, <<"\n">>, k)
        raw == IF end = -1 THEN SliceFrom(src, k) ELSE Slice(src, k, end + 1)
    IN  Tok("LineComment", raw, Span("cm", raw), k, k + Len(raw))

LineCommentTok(src, k) ==
    LET end == IndexOf(src, <<"\n">>, k)
        raw == IF end = -1 THEN SliceFrom(src, k) ELSE Slice(src, k, end)
    IN  Tok("LineComment", raw, Span("cm", raw), k, k + Len(raw))

\* src.indexOf('*/', i) : the end marker searched from the start marker on
BlockCommentTokMut(src, k) ==
    LET end == IndexOf(src, <<"*", "/">>, k)
        raw == IF end = -1 THEN SliceFrom(src, k) ELSE Slice(src, k, end + 2)
    IN  Tok("BlockComment", raw, SpanMultiline(raw, "cm"), k, k + Len(raw))

BlockCommentTok(src, k) ==
    LET end == IndexOf(src, <<"*", "/">>, k + 2)
        raw == IF end = -1 THEN SliceFrom(src, k) ELSE Slice(src, k, end + 2)
    IN  Tok("BlockComment", raw, SpanMultiline(raw, "cm"), k, k + Len(raw))

HtmlCommentTok(src, k) ==
    LET end == IndexOf(src, <<"-", "-", ">">>, k)
        raw == IF end = -1 THEN SliceFrom(src, k) ELSE Slice(src, k, end + 3)
    IN  Tok("HtmlComment", raw, SpanMultiline(raw, "cm"), k, k + Len(raw))

TagTok(src, k) ==
    LET tagSrc == Slice(src, k, TagEnd(src, k) + 1)
    IN  Tok("Tag", tagSrc, ColorTag(tagSrc), k, k + Len(tagSrc))

\* const raw = slice(i, j) : the closing quote left out of the token
StringTokMut(src, k) ==
    LET j == StringEnd(src, k + 1, CharAt(src, k))
        raw == Slice(src, k, j)
    IN  Tok("String", raw, SpanMultiline(raw, "str"), k, j + 1)

StringTok(src, k) ==
    LET j == StringEnd(src, k + 1, CharAt(src, k))
        raw == Slice(src, k, j + 1)
    IN  Tok("String", raw, SpanMultiline(raw, "str"), k, j + 1)

\* a newline written without the cursor moving on
NewlineTokMut(src, k) == Tok("Newline", <<"\n">>, <<"\n">>, k, k)

NewlineTok(src, k) == Tok("Newline", <<"\n">>, <<"\n">>, k, k + 1)

PlainTok(src, k) ==
    Tok("Plain", <<CharAt(src, k)>>, Span("pl", <<CharAt(src, k)>>), k, k + 1)

\* one iteration of the loop of _tokenize at cursor k
TokStep(src, k) ==
    CASE Rule(src, k) = "LineComment" -> LineCommentTok(src, k)
      [] Rule(src, k) = "BlockComment" -> BlockCommentTok(src, k)
      [] Rule(src, k) = "HtmlComment" -> HtmlCommentTok(src, k)
      [] Rule(src, k) = "Tag" -> TagTok(src, k)
      [] Rule(src, k) = "String" -> StringTok(src, k)
      [] Rule(src, k) = "Newline" -> NewlineTok(src, k)
      [] OTHER -> PlainTok(src, k)

RECURSIVE TokenizeLoop(_, _, _)
TokenizeLoop(src, k, acc) ==
    IF ~(k < Len(src)) THEN acc
    ELSE TokenizeLoop(src, TokStep(src, k).next, acc \o TokStep(src, k).markup)

\* _tokenize(src)
Tokenize(src) == TokenizeLoop(src, 0, <<>>)

\* a highlighter that tokenizes html only and leaves other languages plain
HighlightMut(c, lang) ==
    IF lang = <<"h", "t", "m", "l">> THEN Tokenize(c) ELSE SpanMultiline(c, "pl")

\* _highlight(code, lang)
Highlight(c, lang) == Tokenize(c)

----------------------------------------------------------------------------
(* _buildLines, and the elements its markup parses to *)

\* `<span class="line"><span class="ln">${i + 1}</span><span>${line || ' '}</span></span>`
BuildLine(line, k, hasLineNumbers) ==
    <<SpanOpen("line")>>
        \o (IF hasLineNumbers THEN <<SpanOpen("ln"), ToString(k), SpanClose>> ELSE <<>>)
        \o <<SpanBare>> \o (IF line = <<>> THEN <<" ">> ELSE line)
        \o <<SpanClose, SpanClose>>

\* _buildLines(highlighted)
BuildLines(highlighted, hasLineNumbers) ==
    LET ls == Split(highlighted, "\n")
    IN  Flatten([k \in 1..Len(ls) |-> BuildLine(ls[k], k, hasLineNumbers)])

RECURSIVE Unescape(_)
\* the character references of a text node, decoded by the HTML parser
Unescape(t) ==
    IF Len(t) = 0 THEN <<>>
    ELSE IF Slice(t, 0, 5) = Amp THEN <<"&">> \o Unescape(SliceFrom(t, 5))
    ELSE IF Slice(t, 0, 4) = Lt THEN <<"<">> \o Unescape(SliceFrom(t, 4))
    ELSE IF Slice(t, 0, 4) = Gt THEN <<">">> \o Unescape(SliceFrom(t, 4))
    ELSE <<t[1]>> \o Unescape(Tail(t))

ClassOf(w) ==
    CASE w = SpanOpen("cm") -> "cm"
      [] w = SpanOpen("tg") -> "tg"
      [] w = SpanOpen("str") -> "str"
      [] w = SpanOpen("pl") -> "pl"
      [] w = SpanOpen("line") -> "line"
      [] w = SpanOpen("ln") -> "ln"
      [] OTHER -> ""

EmptyRecord == [lineNumber |-> <<>>, fragments |-> <<>>, filler |-> <<>>]

\* the text item c, met with the elements of stack open, added to the records
AddText(recs, stack, c) ==
    LET n == Len(recs)
        r == recs[n]
        f == Len(r.fragments)
    IN  IF Len(stack) < 2 THEN recs
        ELSE IF stack[2] = "ln"
             THEN [recs EXCEPT ![n].lineNumber = @ \o <<c>>]
        ELSE IF Len(stack) = 2
             THEN [recs EXCEPT ![n].filler = @ \o <<c>>]
        ELSE [recs EXCEPT ![n].fragments[f].text = @ \o <<c>>]

\* the start tag w, met with the elements of stack open, added to the records
AddElement(recs, stack, w) ==
    IF Len(stack) = 0 THEN Append(recs, EmptyRecord)
    ELSE IF Len(stack) = 2 /\ stack[2] = ""
         THEN [recs EXCEPT ![Len(recs)].fragments =
                              Append(@, [kind |-> ClassOf(w), text |-> <<>>])]
    ELSE recs

\* the parser's step on one item of the markup; st = [stack, recs]
ParseItem(st, it) ==
    IF it = SpanClose
    THEN [st EXCEPT !.stack = IF Len(@) = 0 THEN @ ELSE SubSeq(@, 1, Len(@) - 1)]
    ELSE IF it \in Wrappers
    THEN [stack |-> Append(st.stack, ClassOf(it)),
          recs |-> AddElement(st.recs, st.stack, it)]
    ELSE [st EXCEPT !.recs = AddText(@, st.stack, it)]

RECURSIVE ParseRange(_, _, _, _)
\* the items lo..hi of the markup parsed in order, starting from st (the
\* halves keep the evaluation shallow; the test makes the left half a value
\* before the right half is parsed)
ParseRange(m, lo, hi, st) ==
    IF lo > hi THEN st
    ELSE IF lo = hi THEN ParseItem(st, m[lo])
    ELSE LET mid == (lo + hi) \div 2
             left == ParseRange(m, lo, mid, st)
         IN  IF Len(left.stack) >= 0 THEN ParseRange(m, mid + 1, hi, left) ELSE left

\* codeEl.innerHTML = markup: one record for each span.line child of codeEl,
\* holding the text of its span.ln, the child spans of its content span (the
\* fragments: class and text) and the bare text of the content span
ParseDom(markup) ==
    LET recs == ParseRange(markup, 1, Len(markup), [stack |-> <<>>, recs |-> <<>>]).recs
    IN  [n \in 1..Len(recs) |->
            [recs[n] EXCEPT !.fragments =
                [f \in 1..Len(@) |-> [@[f] EXCEPT !.text = Unescape(@)]]]]

\* the source text the displayed records stand for: the fragments of each
\* line concatenated, the lines joined with one newline
TextOfLines(recs) ==
    Join([n \in 1..Len(recs) |->
             Flatten([f \in 1..Len(recs[n].fragments) |-> recs[n].fragments[f].text])],
         <<"\n">>)

----------------------------------------------------------------------------
(* Source texts *)

\* <span class="a>b">x</span>
ExTagQuote ==
    <<"<", "s", "p", "a", "n", " ", "c", "l", "a", "s", "s", "=", "\"",
      "a", ">", "b", "\"", ">", "x", "<", "/", "s", "p", "a", "n", ">">>

\* /* never closed
ExNeverClosed ==
    <<"/", "*", " ", "n", "e", "v", "e", "r", " ", "c", "l", "o", "s", "e",
      "d">>

\* /* line1\nline2 */
ExTwoLineComment ==
    <<"/", "*", " ", "l", "i", "n", "e", "1", "\n", "l", "i", "n", "e",
      "2", " ", "*", "/">>

\* the 4-line example, outer lines indented 2 and inner lines 4
ExEndToEnd ==
    <<" ", " ", "<", "d", "i", "v", ">", "\n", " ", " ", " ", " ", "/",
      "/", " ", "n", "o", "t", "e", "\n", " ", " ", " ", " ", "<", "s",
      "p", "a", "n", " ", "c", "l", "a", "s", "s", "=", "\"", "a", ">",
      "b", "\"", ">", "x", "<", "/", "s", "p", "a", "n", ">", "\n", " ",
      " ", "<", "/", "d", "i", "v", ">">>

\* the first line is indented more than the second
ExFirstLineIndented ==
    <<" ", " ", "a", "\n", "b">>

\* trailing white space on the last non-blank line
ExTrailingSpace ==
    <<"a", "\n", " ", "b", " ", " ", "\n">>

\* an HTML comment over two lines
ExHtmlComment ==
    <<"<", "!", "-", "-", "a", "\n", ">", "-", "-", ">", "b">>

\* an HTML comment that is never closed
ExHtmlCommentOpen ==
    <<"<", "!", "-", "-", " ", "a", ">", "b">>

\* a tag with a newline, and a quoted value with a newline and a >
ExTagNewlineString ==
    <<"<", "a", " ", "b", "=", "'", "c", "\n", "d", ">", "'", "\n", ">",
      "&", "a", "m", "p", ";">>

\* each quote inside a string of the other, escaped quotes
ExQuotes ==
    <<"'", "a", "\"", "b", "\\", "'", "c", "'", " ", "\"", "d", "'", "\\",
      "\\", "\"">>

\* a < followed by a letter with no > after it
ExOpenTag ==
    <<"a", " ", "<", "b", " ", "c">>

\* a </ with no > after it
ExOpenClosingTag ==
    <<"<", "/", "a">>

\* a form feed in the leading white space
ExFormFeed ==
    <<"\t", "a", "\n", "\t", "\f", "b">>

\* blank lines before, between and after
ExBlankLines ==
    <<"\n", " ", "\n", " ", " ", "a", "\n", "\n", " ", " ", " ", "b", "\n",
      " ", "\n">>

\* <a b="c"> 'd\ : a tag with a quoted value, then a string that is never
\* closed and ends in a backslash
ExTagThenOpenString ==
    <<"<", "a", " ", "b", "=", "\"", "c", "\"", ">", " ", "'", "d", "\\">>

\* a declaration: < followed by !
ExDeclaration ==
    <<"<", "!", "a", ">", "b">>

\* a form feed is all the indentation of the first line
ExFormFeedIndent ==
    <<"\f", "a", "\n", " ", "b">>

\* <a &>"&lt;"//&& : a tag, a string and a comment with ampersands
ExAmpersands ==
    <<"<", "a", " ", "&", ">", "\"", "&", "l", "t", ";", "\"", "/", "/", "&", "&">>

Examples ==
    {ExTagQuote, ExNeverClosed, ExTwoLineComment, ExEndToEnd, ExFirstLineIndented,
     ExTrailingSpace, ExHtmlComment, ExHtmlCommentOpen, ExTagNewlineString,
     ExQuotes, ExOpenTag, ExOpenClosingTag, ExFormFeed, ExBlankLines,
     ExTagThenOpenString, ExDeclaration, ExFormFeedIndent, ExAmpersands}

PipeAlphabet == {" ", "\n", "a", "/", "*", "<", ">", "\"", "\\"}
PipeInputs == Strings(PipeAlphabet, MaxLen) \cup Examples

DedentAlphabet == {" ", "\t", "\n", "a"}
DedentInputs == Strings(DedentAlphabet, MaxDedentLen) \cup Examples

----------------------------------------------------------------------------
(* The pipeline of _setup, one step at a time *)

PipeIdle ==
    /\ x = <<>> /\ code = <<>> /\ i = 0 /\ out = <<>> /\ toks = <<>>
    /\ lines = <<>> /\ noLines = FALSE /\ pc = "idle"

DedentIdle == dx = <<>> /\ d1 = <<>> /\ d2 = <<>> /\ dpc = "idle"

EmptyShadow ==
    [codeEl |-> <<>>, langBadge |-> <<>>, toolbarHidden |-> FALSE,
     copyBtnText |-> "", copyBtnCopied |-> FALSE, listeners |-> 0]

ElemIdle ==
    /\ textContent = <<>> /\ originalCode = <<>>
    /\ isRendered = FALSE /\ connected = FALSE
    /\ attrs = [n \in {"language", "no-toolbar", "no-lines"} |-> Null]
    /\ dom = EmptyShadow
    /\ writes = <<>> /\ timers = 0 /\ clipboard = Null /\ written = <<>>
    /\ events = <<>>
    /\ clicks = 0

InitPipe ==
    /\ x \in PipeInputs
    /\ code = <<>> /\ i = 0 /\ out = <<>> /\ toks = <<>>
    /\ lines = <<>> /\ noLines = FALSE /\ pc = "start"
    /\ DedentIdle /\ ElemIdle

\* const code = this._dedent(this._originalCode).trim()
DedentTrim ==
    /\ pc = "start"
    /\ IF DedentThrows(x)
       THEN pc' = "error" /\ code' = code
       ELSE pc' = "scan" /\ code' = Trim(Dedent(x))
    /\ UNCHANGED <<x, i, out, toks, lines, noLines, dedentVars, elemVars>>

\* the token t is emitted: out += markup; i moves past it
Emit(t) ==
    /\ out' = out \o t.markup
    /\ i' = t.next
    /\ toks' = Append(toks, t)
    /\ UNCHANGED <<x, code, lines, noLines, pc, dedentVars, elemVars>>

\* one iteration of while (i < len), by the branch taken
ScanLineComment ==
    /\ pc = "scan" /\ i < Len(code)
    /\ Rule(code, i) = "LineComment"
    /\ Emit(LineCommentTok(code, i))

ScanBlockComment ==
    /\ pc = "scan" /\ i < Len(code)
    /\ Rule(code, i) = "BlockComment"
    /\ Emit(BlockCommentTok(code, i))

ScanHtmlComment ==
    /\ pc = "scan" /\ i < Len(code)
    /\ Rule(code, i) = "HtmlComment"
    /\ Emit(HtmlCommentTok(code, i))

ScanTag ==
    /\ pc = "scan" /\ i < Len(code)
    /\ Rule(code, i) = "Tag"
    /\ Emit(TagTok(code, i))

ScanString ==
    /\ pc = "scan" /\ i < Len(code)
    /\ Rule(code, i) = "String"
    /\ Emit(StringTok(code, i))

ScanNewline ==
    /\ pc = "scan" /\ i < Len(code)
    /\ Rule(code, i) = "Newline"
    /\ Emit(NewlineTok(code, i))

ScanPlain ==
    /\ pc = "scan" /\ i < Len(code)
    /\ Rule(code, i) = "Plain"
    /\ Emit(PlainTok(code, i))

\* the loop ends: return out
ScanReturn ==
    /\ pc = "scan"
    /\ ~(i < Len(code))
    /\ pc' = "render"
    /\ UNCHANGED <<x, code, i, out, toks, lines, noLines, dedentVars, elemVars>>

\* _render / _update: codeEl holds this._buildLines(highlighted)
Render ==
    /\ pc = "render"
    /\ \E nl \in BOOLEAN :
          /\ noLines' = nl
          /\ lines' = ParseDom(BuildLines(out, ~nl))
    /\ pc' = "done"
    /\ UNCHANGED <<x, code, i, out, toks, dedentVars, elemVars>>

NextPipe ==
    \/ DedentTrim
    \/ ScanLineComment \/ ScanBlockComment \/ ScanHtmlComment \/ ScanTag
    \/ ScanString \/ ScanNewline \/ ScanPlain
    \/ ScanReturn
    \/ Render

SpecPipe == InitPipe /\ [][NextPipe]_vars

----------------------------------------------------------------------------
(* _dedent applied to a text and to its own result *)

InitDedent ==
    /\ dx \in DedentInputs
    /\ d1 = <<>> /\ d2 = <<>> /\ dpc = "start"
    /\ PipeIdle /\ ElemIdle

DedentOnce ==
    /\ dpc = "start"
    /\ d1' = Dedent(dx)
    /\ dpc' = "once"
    /\ UNCHANGED <<dx, d2, pipeVars, elemVars>>

DedentTwice ==
    /\ dpc = "once"
    /\ d2' = Dedent(d1)
    /\ dpc' = "twice"
    /\ UNCHANGED <<dx, d1, pipeVars, elemVars>>

NextDedent == DedentOnce \/ DedentTwice

SpecDedent == InitDedent /\ [][NextDedent]_vars

----------------------------------------------------------------------------
(* The luna-code element: lifecycle callbacks and the copy action *)

AttrNames == {"language", "no-toolbar", "no-lines"}

\* the values the language attribute takes: js, and a value that needs escaping
LangJs == <<"j", "s">>
LangMarkup == <<"<", "&", ">">>
LangHtml == <<"h", "t", "m", "l">>

\* the values an attribute is set to; a boolean attribute is set to ''
AttrValues(name) == IF name = "language" THEN {LangJs, LangMarkup} ELSE {<<>>}

\* <a>& : a tag and a character that is escaped
ExSmallTag == <<"<", "a", ">", "&">>

ElemAlphabet == {" ", "a"}
ElemInputs ==
    Strings(ElemAlphabet, MaxSrcLen)
        \cup {ExFirstLineIndented, ExTrailingSpace, ExSmallTag}

\* this.hasAttribute(name)
HasAttribute(as, name) == as[name] # Null

\* this.getAttribute('language') || 'html'
Language(as) ==
    IF as["language"] = Null \/ as["language"] = <<>> THEN LangHtml
    ELSE as["language"]

\* this._dedent(this._originalCode).trim()
CodeOf(orig) == Trim(Dedent(orig))

\* _render(highlighted, lang): the shadow tree is built and the click
\* listener of the copy button is added
RenderShadow(d, highlighted, lang, as) ==
    [codeEl |-> ParseDom(BuildLines(highlighted, ~HasAttribute(as, "no-lines"))),
     langBadge |-> Unescape(Escape(lang)),
     toolbarHidden |-> HasAttribute(as, "no-toolbar"),
     copyBtnText |-> "copy",
     copyBtnCopied |-> FALSE,
     listeners |-> 1]

\* _setup()
Setup(d, orig, as) ==
    RenderShadow(d, Highlight(CodeOf(orig), Language(as)), Language(as), as)

\* an update that sets the badge again and leaves the lines as they were
UpdateBadgeOnly(d, orig, as) == [d EXCEPT !.langBadge = Escape(Language(as))]

\* _update(): codeEl.innerHTML and langBadge.textContent are set again
Update(d, orig, as) ==
    [d EXCEPT
        !.codeEl = ParseDom(BuildLines(Highlight(CodeOf(orig), Language(as)),
                                       ~HasAttribute(as, "no-lines"))),
        !.langBadge = Escape(Language(as))]

Init ==
    /\ textContent \in ElemInputs
    /\ originalCode = <<>>
    /\ isRendered = FALSE /\ connected = FALSE
    /\ attrs \in [AttrNames -> {Null, <<>>, LangJs}]
    /\ attrs["language"] \in {Null, LangJs}
    /\ attrs["no-toolbar"] \in {Null, <<>>} /\ attrs["no-lines"] \in {Null, <<>>}
    /\ dom = EmptyShadow
    /\ writes = <<>> /\ timers = 0 /\ clipboard = Null /\ written = <<>>
    /\ events = <<>>
    /\ clicks = 0
    /\ PipeIdle /\ DedentIdle

\* a connectedCallback without the guard of _isRendered: every connect
\* captures the text and renders
ConnectAlways ==
    /\ ~connected
    /\ connected' = TRUE
    /\ originalCode' = textContent
    /\ dom' = Setup(dom, textContent, attrs)
    /\ isRendered' = TRUE
    /\ UNCHANGED <<textContent, attrs, writes, timers, clipboard, written, events,
                   clicks, pipeVars, dedentVars>>

\* connectedCallback(): the element is inserted into a document
Connect ==
    /\ ~connected
    /\ connected' = TRUE
    /\ IF ~isRendered
       THEN /\ originalCode' = textContent
            /\ dom' = Setup(dom, textContent, attrs)
            /\ isRendered' = TRUE
       ELSE UNCHANGED <<originalCode, dom, isRendered>>
    /\ UNCHANGED <<textContent, attrs, writes, timers, clipboard, written, events, clicks,
                   pipeVars, dedentVars>>

\* the element is removed from its document (no disconnectedCallback)
Disconnect ==
    /\ connected
    /\ connected' = FALSE
    /\ UNCHANGED <<textContent, originalCode, isRendered, attrs, dom, writes,
                   timers, clipboard, written, events, clicks, pipeVars, dedentVars>>

\* attributeChangedCallback(name, oldValue, newValue)
AttributeChanged(name, oldValue, newValue, as) ==
    IF isRendered /\ oldValue # newValue
    THEN dom' = Update(dom, originalCode, as)
    ELSE dom' = dom

\* setAttribute(name, value)
SetAttribute ==
    /\ \E name \in AttrNames : \E value \in AttrValues(name) :
          /\ attrs' = [attrs EXCEPT ![name] = value]
          /\ AttributeChanged(name, attrs[name], value, attrs')
    /\ UNCHANGED <<textContent, originalCode, isRendered, connected, writes,
                   timers, clipboard, written, events, clicks, pipeVars, dedentVars>>

\* removeAttribute(name) of an attribute that is present
RemoveAttribute ==
    /\ \E name \in AttrNames :
          /\ attrs[name] # Null
          /\ attrs' = [attrs EXCEPT ![name] = Null]
          /\ AttributeChanged(name, attrs[name], Null, attrs')
    /\ UNCHANGED <<textContent, originalCode, isRendered, connected, writes,
                   timers, clipboard, written, events, clicks, pipeVars, dedentVars>>

\* the text the element's content is replaced by
NewTexts == {<<"a">>}

\* the element's text content is replaced (this.textContent = text): the
\* class observes attributes only, no callback of it runs
SetTextContent ==
    /\ \E text \in NewTexts :
          /\ text # textContent
          /\ textContent' = text
    /\ UNCHANGED <<originalCode, isRendered, connected, attrs, dom, writes,
                   timers, clipboard, written, events, clicks, pipeVars, dedentVars>>

\* a copy action that writes the dedented text without trimming it
CopyCodeUntrimmed(orig) == Dedent(orig)

\* _handleCopy(): const code = this._dedent(this._originalCode).trim()
CopyCode(orig) == Trim(Dedent(orig))

\* a click on the copy button: each listener runs _handleCopy() up to the
\* call of navigator.clipboard.writeText(code)
CopyClick ==
    /\ isRendered
    /\ clicks < MaxClicks
    /\ clicks' = clicks + 1
    /\ writes' = writes \o [n \in 1..dom.listeners |-> CopyCode(originalCode)]
    /\ UNCHANGED <<textContent, originalCode, isRendered, connected, attrs, dom,
                   timers, clipboard, written, events, pipeVars, dedentVars>>

\* the sequence s without its item k
Without(s, k) == SubSeq(s, 1, k - 1) \o SubSeq(s, k + 1, Len(s))

\* a clipboard write succeeds and its then-callback runs
WriteResolved ==
    /\ \E k \in 1..Len(writes) :
          /\ clipboard' = writes[k]
          /\ written' = Append(written, writes[k])
          /\ events' = Append(events, writes[k])
          /\ writes' = Without(writes, k)
    /\ dom' = [dom EXCEPT !.copyBtnText = "copied!", !.copyBtnCopied = TRUE]
    /\ timers' = timers + 1
    /\ UNCHANGED <<textContent, originalCode, isRendered, connected, attrs,
                   clicks, pipeVars, dedentVars>>

\* a failed clipboard write whose handler still announces the copy
WriteRejectedMut ==
    /\ \E k \in 1..Len(writes) :
          /\ events' = Append(events, writes[k])
          /\ writes' = Without(writes, k)
    /\ UNCHANGED <<textContent, originalCode, isRendered, connected, attrs, dom,
                   timers, clipboard, written, clicks, pipeVars, dedentVars>>

\* a clipboard write fails: the promise is rejected and nothing handles it
WriteRejected ==
    /\ \E k \in 1..Len(writes) : writes' = Without(writes, k)
    /\ UNCHANGED <<textContent, originalCode, isRendered, connected, attrs, dom,
                   timers, clipboard, written, events, clicks, pipeVars, dedentVars>>

\* a reset callback that removes the class and leaves the label
TimerFiredKeepsLabel ==
    /\ timers > 0
    /\ timers' = timers - 1
    /\ dom' = [dom EXCEPT !.copyBtnCopied = FALSE]
    /\ UNCHANGED <<textContent, originalCode, isRendered, connected, attrs,
                   writes, clipboard, written, events, clicks, pipeVars, dedentVars>>

\* a reset callback of setTimeout(..., 1800) runs
TimerFired ==
    /\ timers > 0
    /\ timers' = timers - 1
    /\ dom' = [dom EXCEPT !.copyBtnText = "copy", !.copyBtnCopied = FALSE]
    /\ UNCHANGED <<textContent, originalCode, isRendered, connected, attrs,
                   writes, clipboard, written, events, clicks, pipeVars, dedentVars>>

Next ==
    \/ Connect
    \/ Disconnect
    \/ SetAttribute
    \/ RemoveAttribute
    \/ SetTextContent
    \/ CopyClick
    \/ WriteResolved
    \/ WriteRejected
    \/ TimerFired

Spec == Init /\ [][Next]_vars

----------------------------------------------------------------------------
(* Vocabulary of the properties *)

Max(S) == CHOOSE m \in S : \A n \in S : m >= n

Scanned == pc \in {"scan", "render", "done"}

\* the raw texts of the tokens emitted so far, concatenated in order
RawText == Flatten([k \in 1..Len(toks) |-> toks[k].raw])

IsText(it) == it \notin Wrappers

\* the text a piece of markup shows: its wrappers dropped, its references decoded
MarkupText(m) == Unescape(SelectSeq(m, IsText))

NewlineCount(s) == Cardinality({k \in 1..Len(s) : s[k] = "\n"})

\* at position k of s stands '<' followed by '/', '!' or a letter
TagOpenAt(s, k) ==
    CharAt(s, k) = "<" /\ CharAt(s, k + 1) \in Letters \cup {"/", "!"}

\* the number of backslashes that stand immediately before position k of s,
\* counted back no further than position p + 1
BackslashRun(s, p, k) ==
    Max({r \in 0..(k - p - 1) : \A n \in 1..r : CharAt(s, k - n) = "\\"})

\* no occurrence of the quote q after position p of s closes a string opened
\* at p: each one follows an odd number of backslashes
NoClosingQuote(s, p, q) ==
    \A k \in (p + 1)..(Len(s) - 1) :
        CharAt(s, k) = q => BackslashRun(s, p, k) % 2 = 1

RECURSIVE UnquotedGt(_, _)
\* the first '>' at or after position k of s that lies outside every quoted
\* string begun at or after k; -1 if there is none
UnquotedGt(s, k) ==
    IF k >= Len(s) THEN -1
    ELSE IF CharAt(s, k) = ">" THEN k
    ELSE IF CharAt(s, k) \in {"\"", "'"}
         THEN UnquotedGt(s, StringEnd(s, k + 1, CharAt(s, k)) + 1)
    ELSE UnquotedGt(s, k + 1)

----------------------------------------------------------------------------
(* Properties of the pipeline and of the tokenizer (SpecPipe) *)

\* C1: for every input x, the line records the pipeline produces, their
\* fragments un-escaped and concatenated and the lines joined with one
\* newline, reproduce dedent(x) exactly.
C1_RoundTripDedent == pc = "done" => TextOfLines(lines) = Dedent(x)

\* C3: the raw texts of the tokens emitted, concatenated in emission order,
\* equal the text scanned so far, and the whole text once the scan has ended;
\* the text the markup of a token shows is the token's raw text (stated of
\* the token emitted last: every token is the last one in some state).
C3_LosslessTokens ==
    Scanned =>
        /\ RawText = Slice(code, 0, i)
        /\ pc # "scan" => RawText = code
        /\ Len(toks) > 0 =>
              MarkupText(toks[Len(toks)].markup) = toks[Len(toks)].raw

C3_Witness ==
    /\ pc = "done"
    /\ \E k \in 1..Len(toks) : \E n \in 1..Len(toks) :
          /\ toks[k].kind = "Tag" /\ \E c \in 1..Len(toks[k].raw) : toks[k].raw[c] = "\""
          /\ toks[n].kind = "String" /\ toks[n].raw[Len(toks[n].raw)] = "\\"
          /\ toks[n].next > Len(code)

\* C4: a '>' inside a quoted attribute value does not end the tag: a Tag
\* token ends at the first '>' outside every quoted string of the tag, and
\* <span class="a>b">x</span> gives Tag <span class="a>b">, Plain x, Tag </span>.
C4_TagContainment ==
    /\ \A k \in 1..Len(toks) :
          (toks[k].kind = "Tag" /\ UnquotedGt(code, toks[k].start) # -1)
              => toks[k].next = UnquotedGt(code, toks[k].start) + 1
    /\ (pc = "done" /\ code = ExTagQuote) =>
          /\ Len(toks) = 3
          /\ toks[1].kind = "Tag" /\ toks[1].raw = Slice(ExTagQuote, 0, 18)
          /\ toks[2].kind = "Plain" /\ toks[2].raw = <<"x">>
          /\ toks[3].kind = "Tag" /\ toks[3].raw = SliceFrom(ExTagQuote, 19)

\* C5: dedent, the tokenizer and the line builder complete on every input:
\* no state is an error state, a text that is scanned has its dedent result,
\* and the pipeline's last state holds the line records.
C5_NoError ==
    /\ pc # "error"
    /\ Scanned => ~DedentThrows(x) /\ code = Trim(Dedent(x))
    /\ pc = "done" => Len(lines) >= 1

C5_Witness ==
    /\ pc = "done"
    /\ Len(x) > 0 /\ code = <<>> /\ Len(lines) = 1

C7_UnterminatedBlockComment ==
    /\ \A k \in 1..Len(toks) :
          (/\ Slice(code, toks[k].start, toks[k].start + 2) = <<"/", "*">>
           /\ IndexOf(code, <<"*", "/">>, toks[k].start + 2) = -1)
              => /\ toks[k].kind = "BlockComment"
                 /\ toks[k].raw = SliceFrom(code, toks[k].start)
                 /\ toks[k].next = Len(code)
                 /\ k = Len(toks)
    /\ (/\ pc \in {"render", "done"}
        /\ Slice(code, 0, 2) = <<"/", "*">>
        /\ IndexOf(code, <<"*", "/">>, 2) = -1)
          => Len(toks) = 1 /\ toks[1].raw = code

C7_Witness ==
    /\ pc = "done"
    /\ code = ExNeverClosed
    /\ Len(toks) = 1 /\ toks[1].kind = "BlockComment" /\ toks[1].raw = code

\* C8: at a quote character with no matching unescaped closing quote after
\* it, one String token covers everything from the opening quote to the end
\* of input, also when the last character is a backslash.
C8_UnterminatedString ==
    \A k \in 1..Len(toks) :
        (/\ CharAt(code, toks[k].start) \in {"\"", "'"}
         /\ NoClosingQuote(code, toks[k].start, CharAt(code, toks[k].start)))
            => /\ toks[k].kind = "String"
               /\ toks[k].raw = SliceFrom(code, toks[k].start)
               /\ toks[k].next >= Len(code)
               /\ k = Len(toks)

C8_Witness ==
    /\ pc = "done"
    /\ \E k \in 1..Len(toks) :
          /\ toks[k].kind = "String" /\ toks[k].start > 0
          /\ NoClosingQuote(code, toks[k].start, CharAt(code, toks[k].start))
          /\ CharAt(code, Len(code) - 1) = "\\"
          /\ Len(toks[k].raw) >= 3

\* C10: the number of line records is the number of newline characters of
\* the tokenized text plus one, wherever the newlines lie.
C10_LinePerNewline == pc = "done" => Len(lines) = NewlineCount(code) + 1

C10_Witness ==
    /\ pc = "done"
    /\ Len(lines) >= 3
    /\ \E k \in 1..Len(toks) :
          /\ toks[k].kind = "Tag"
          /\ \E c \in 2..Len(toks[k].raw) :
                toks[k].raw[c] = "\n" /\ toks[k].raw[c - 1] \in Letters
                /\ \E q \in 1..(c - 1) : toks[k].raw[q] = "'"

----------------------------------------------------------------------------
(* Properties of _dedent (SpecDedent) *)

\* C9: dedent is idempotent: dedent(dedent(x)) = dedent(x) for every text x.
C9_DedentIdempotent == dpc = "twice" => d2 = d1

C9_Witness ==
    /\ dpc = "twice"
    /\ d1 # dx /\ Len(Split(d1, "\n")) >= 2
    /\ \E k \in 2..Len(d1) : d1[k - 1] = "\n" /\ d1[k] \in {" ", "\t"}

\* the length of the longest prefix of the line l made of characters of S
RunLength(l, S) == Max({r \in 0..Len(l) : \A j \in 1..r : l[j] \in S})

\* the text s with its leading and trailing blank lines stripped and, of
\* every remaining line, the first k characters removed, k the least length
\* of the leading run of characters of S over the remaining non-blank lines
DedentBy(s, S) ==
    LET ls == Split(s, "\n")
        nb == {n \in 1..Len(ls) : ~IsBlankLine(ls[n])}
    IN  IF nb = {} THEN <<>>
        ELSE LET lo == CHOOSE n \in nb : \A m \in nb : n <= m
                 hi == Max(nb)
                 k == CHOOSE r \in {RunLength(ls[n], S) : n \in nb} :
                         \A n \in nb : r <= RunLength(ls[n], S)
             IN  Join([n \in 1..(hi - lo + 1) |->
                          IF Len(ls[lo + n - 1]) <= k THEN <<>>
                          ELSE SubSeq(ls[lo + n - 1], k + 1, Len(ls[lo + n - 1]))],
                      <<"\n">>)

\* C19 (as claimed): dedent strips the leading and trailing blank lines and
\* removes from every remaining line k leading characters, k the least
\* length, over the remaining non-blank lines, of the leading run of space
\* and tab characters.
C19_SpaceTabIndent == dpc # "start" => d1 = DedentBy(dx, {" ", "\t"})

\* C19 (amended): as claimed, with k the least length of the leading run of
\* white-space characters: space, tab, form feed, carriage return and the
\* other characters that \s matches.
C19_DedentAmount == dpc # "start" => d1 = DedentBy(dx, WhiteSpace)

\* a form feed was the indentation of one line, a space that of the other
C19_Witness ==
    /\ dpc = "once"
    /\ dx = ExFormFeedIndent
    /\ d1 = <<"a", "\n", "b">>

\* C29: dedent removes only white space: the lines of dedent(x) are the
\* lines of x from its first to its last non-blank line; there is a number k
\* such that every kept non-blank line has lost exactly its first k
\* characters, all of them white space, and every kept blank line has lost a
\* prefix; and a non-empty result has a line that begins with a character
\* that is not white space.
C29_RemovesOnlyWhitespace ==
    dpc # "start" =>
        LET ls == Split(dx, "\n")
            nb == {n \in 1..Len(ls) : ~IsBlankLine(ls[n])}
            kept == Split(d1, "\n")
        IN  IF nb = {} THEN d1 = <<>>
            ELSE LET lo == CHOOSE n \in nb : \A m \in nb : n <= m
                     hi == Max(nb)
                 IN  /\ Len(kept) = hi - lo + 1
                     /\ \E k \in 0..Len(dx) :
                           \A n \in lo..hi :
                              LET l == ls[n]
                                  r == kept[n - lo + 1]
                              IN  IF n \in nb
                                  THEN /\ Len(l) >= k
                                       /\ r = SubSeq(l, k + 1, Len(l))
                                       /\ \A j \in 1..k : l[j] \in WhiteSpace
                                  ELSE /\ Len(r) <= Len(l)
                                       /\ r = SubSeq(l, Len(l) - Len(r) + 1, Len(l))
                     /\ \E n \in 1..Len(kept) :
                           kept[n] # <<>> /\ kept[n][1] \notin WhiteSpace

\* two lines have lost the tab they share; the form feed after it is kept
C29_Witness ==
    /\ dpc = "once"
    /\ dx = ExFormFeed
    /\ d1 = <<"a", "\n", "\f", "b">>

----------------------------------------------------------------------------
(* Properties of the element (Spec) *)

\* C2: the text the copy action writes to the clipboard, and reports in the
\* luna-copy event, is exactly dedent(x) for the captured source text x.
C2_CopyIsDedent ==
    /\ \A k \in 1..Len(writes) : writes[k] = Dedent(originalCode)
    /\ clipboard # Null => clipboard = Dedent(originalCode)
    /\ \A k \in 1..Len(events) : events[k] = Dedent(originalCode)

----------------------------------------------------------------------------
(* Fragments: the spans a token's markup parses to, line by line *)

\* the class of the spans that wrap a token of the given kind
ClassOfKind(kind) ==
    CASE kind \in {"LineComment", "BlockComment", "HtmlComment"} -> "cm"
      [] kind = "Tag" -> "tg"
      [] kind = "String" -> "str"
      [] OTHER -> "pl"

\* the token emitted last
LastTok == toks[Len(toks)]

\* the line records the markup of one token parses to
TokenLines(t) == ParseDom(BuildLines(t.markup, FALSE))

HasQuote(s) == \E c \in 1..Len(s) : s[c] \in {"\"", "'"}

\* C11 (as claimed): a block comment, string or tag whose raw text spans N
\* lines yields exactly N fragments, all of the token's own kind, one on
\* each line (stated of the token emitted last: every token is the last one
\* in some state).
C11_OneFragmentPerLine ==
    (Len(toks) > 0 /\ LastTok.kind \in {"BlockComment", "String", "Tag"}) =>
        LET recs == TokenLines(LastTok)
        IN  /\ Len(recs) = NewlineCount(LastTok.raw) + 1
            /\ \A n \in 1..Len(recs) :
                  /\ Len(recs[n].fragments) = 1
                  /\ recs[n].fragments[1].kind = ClassOfKind(LastTok.kind)

\* C11 (amended): a comment or string token, and a tag token that holds no
\* quote, whose raw text spans N lines yields exactly N fragments of its own
\* kind, one on each line; a tag token that holds a quote yields on each of
\* its N lines one or more fragments, each of kind Tag or String, the quoted
\* text being of kind String.
C11_FragmentsPerLine ==
    (Len(toks) > 0
        /\ LastTok.kind \in {"BlockComment", "HtmlComment", "String", "Tag"}) =>
        LET recs == TokenLines(LastTok)
        IN  /\ Len(recs) = NewlineCount(LastTok.raw) + 1
            /\ IF LastTok.kind = "Tag" /\ HasQuote(LastTok.raw)
               THEN /\ \A n \in 1..Len(recs) :
                          /\ Len(recs[n].fragments) >= 1
                          /\ \A f \in 1..Len(recs[n].fragments) :
                                recs[n].fragments[f].kind \in {"tg", "str"}
                    /\ \E n \in 1..Len(recs) : \E f \in 1..Len(recs[n].fragments) :
                          /\ recs[n].fragments[f].kind = "str"
                          /\ recs[n].fragments[f].text # <<>>
                          /\ recs[n].fragments[f].text[1] \in {"\"", "'"}
               ELSE \A n \in 1..Len(recs) :
                          /\ Len(recs[n].fragments) = 1
                          /\ recs[n].fragments[1].kind = ClassOfKind(LastTok.kind)

C11_Witness ==
    /\ pc = "done"
    /\ code = ExTwoLineComment
    /\ Len(lines) = 2
    /\ \A n \in 1..2 :
          Len(lines[n].fragments) = 1 /\ lines[n].fragments[1].kind = "cm"

----------------------------------------------------------------------------
(* Properties of the element (Spec), continued *)

\* the line records the pipeline gives for a source text and a set of
\* attributes, from scratch
RecordsOf(text, as) ==
    ParseDom(BuildLines(Highlight(CodeOf(text), Language(as)),
                        ~HasAttribute(as, "no-lines")))

\* C12: once rendered, after any sequence of connect, attribute-change and
\* text-change operations the displayed line records are those the pipeline
\* gives from scratch for the element's current text and current attributes.
C12_RecomputeOnChange ==
    isRendered => dom.codeEl = RecordsOf(textContent, attrs)


\* the language labels compared
Languages == {LangHtml, LangJs, LangMarkup}

C14_ToolbarFollowsAttribute ==
    isRendered => (dom.toolbarHidden <=> HasAttribute(attrs, "no-toolbar"))

\* C15: a clipboard write that succeeds dispatches exactly one luna-copy
\* event, in the step that follows the write, whose detail.code is the text
\* written; a write that fails dispatches no event and leaves the label of
\* the button as it was; a click dispatches nothing by itself.
C15_CopyEvent ==
    [][/\ events' = written'
       /\ written' # written =>
            /\ \E k \in 1..Len(writes) :
                  /\ written' = Append(written, writes[k])
                  /\ writes' = Without(writes, k)
            /\ clipboard' = written'[Len(written')]
            /\ events' = Append(events, clipboard')
       /\ (Len(writes') < Len(writes) /\ written' = written) =>
            /\ events' = events
            /\ dom'.copyBtnText = dom.copyBtnText
            /\ dom'.copyBtnCopied = dom.copyBtnCopied
       /\ Len(writes') > Len(writes) =>
            /\ Len(writes') = Len(writes) + 1
            /\ events' = events /\ written' = written]_vars

\* one write succeeded and announced its text, another failed and the
\* label stayed copy
C15_Witness ==
    /\ clicks = 2
    /\ writes = <<>>
    /\ Len(written) = 1
    /\ events = <<CodeOf(originalCode)>>
    /\ originalCode = ExSmallTag

----------------------------------------------------------------------------
(* Properties of the pipeline and of the tokenizer (SpecPipe), continued *)

\* the tokens emitted so far that are neither a newline nor one space
IsInk(t) == t.kind # "Newline" /\ t.raw # <<" ">>
InkToks == SelectSeq(toks, IsInk)

\* the lines of the source text s with their first n characters removed
LinesLess(s, n) == [k \in 1..Len(Split(s, "\n")) |-> SliceFrom(Split(s, "\n")[k], n)]

\* C16: for the 4-line example the output has 4 lines, each the input line
\* less 2 leading spaces; apart from indentation line 2 is one LineComment
\* token, line 3 is the Tag <span class="a>b">, the Plain x and the Tag
\* </span>; the text the copy action writes is the 4-line dedented text.
C16_EndToEnd ==
    (pc = "done" /\ x = ExEndToEnd) =>
        /\ Len(lines) = 4
        /\ Split(TextOfLines(lines), "\n") = LinesLess(x, 2)
        /\ [k \in 1..Len(InkToks) |-> <<InkToks[k].kind, InkToks[k].raw>>]
             = << <<"Tag", <<"<", "d", "i", "v", ">">> >>,
                  <<"LineComment", <<"/", "/", " ", "n", "o", "t", "e">> >>,
                  <<"Tag", Slice(ExTagQuote, 0, 18)>>,
                  <<"Plain", <<"x">> >>,
                  <<"Tag", <<"<", "/", "s", "p", "a", "n", ">">> >>,
                  <<"Tag", <<"<", "/", "d", "i", "v", ">">> >> >>
        /\ code = Join(LinesLess(x, 2), <<"\n">>)


Closers(s, p, q) ==
    {k \in (p + 1)..(Len(s) - 1) :
        CharAt(s, k) = q /\ BackslashRun(s, p, k) % 2 = 0}

\* C18: a String token opened by the quote q ends at the first later q that
\* is not the character escaped by a backslash, each backslash escaping the
\* one character after it; nothing else ends it but the end of the input:
\* not the other quote, not a newline.
C18_StringTermination ==
    (Len(toks) > 0 /\ LastTok.kind = "String") =>
        LET p == LastTok.start
            q == CharAt(code, p)
        IN  /\ q \in {"\"", "'"}
            /\ LastTok.raw = Slice(code, p, LastTok.next)
            /\ IF Closers(code, p, q) = {}
               THEN LastTok.next >= Len(code)
               ELSE \E k \in Closers(code, p, q) :
                       /\ LastTok.next = k + 1
                       /\ \A j \in Closers(code, p, q) : j >= k

\* a string that holds an escaped quote, the other quote and characters
\* after them has been closed by its own quote
C18_Witness ==
    /\ code = ExQuotes
    /\ Len(toks) > 0
    /\ LastTok.kind = "String"
    /\ LastTok.raw = <<"'", "a", "\"", "b", "\\", "'", "c", "'">>


\* the character c as markup: the reference that stands for it, or itself
EscapeChar(c) ==
    CASE c = "&" -> Amp
      [] c = "<" -> Lt
      [] c = ">" -> Gt
      [] OTHER -> <<c>>

\* C20: the text of the fragments of every token of every kind is the raw
\* text of the token with each & replaced by &amp;, each < by &lt; and each
\* > by &gt;, once: the text between the wrappers of its markup is the raw
\* text escaped character by character, and decoding it gives the raw text.
C20_EscapeOnce ==
    Len(toks) > 0 =>
        /\ SelectSeq(LastTok.markup, IsText)
             = Flatten([k \in 1..Len(LastTok.raw) |-> EscapeChar(LastTok.raw[k])])
        /\ MarkupText(LastTok.markup) = LastTok.raw

\* a string that holds the text of a reference has been emitted after a tag
\* that holds an ampersand
C20_Witness ==
    /\ code = ExAmpersands
    /\ Len(toks) = 2
    /\ toks[1].kind = "Tag" /\ toks[2].kind = "String"
    /\ toks[2].raw = <<"\"", "&", "l", "t", ";", "\"">>
    /\ SelectSeq(toks[2].markup, IsText)
         = <<"\"", "&", "a", "m", "p", ";", "l", "t", ";", "\"">>


\* the wrappers that open a span
Openers == Wrappers \ {SpanClose}

\* the number of spans open after the first k items of the markup m
Depth(m, k) ==
    Cardinality({j \in 1..k : m[j] \in Openers})
        - Cardinality({j \in 1..k : m[j] = SpanClose})

\* the wrapper that opened the span open at item k of the markup m
OpenerBefore(m, k) == m[Max({j \in 1..k : m[j] \in Openers})]

\* every span of the markup m is opened before it is closed, and closed
Balanced(m) ==
    /\ Depth(m, Len(m)) = 0
    /\ \A k \in 1..Len(m) : Depth(m, k) >= 0

\* C21: no fragment contains a newline: in the markup of every token each
\* newline lies outside every span, and inside a token the span closed before
\* the newline is reopened after it with the same class; so each line of the
\* output split on newlines is made of complete spans, and no fragment of a
\* displayed line holds a newline.
C21_NoNewlineInFragment ==
    /\ Len(toks) > 0 =>
          LET m == LastTok.markup
          IN  \A k \in 1..Len(m) :
                 m[k] = "\n" =>
                    /\ Depth(m, k) = 0
                    /\ LastTok.kind # "Newline" =>
                          /\ k > 1 /\ k < Len(m)
                          /\ m[k - 1] = SpanClose
                          /\ m[k + 1] = OpenerBefore(m, k)
    /\ pc = "render" =>
          \A n \in 1..Len(Split(out, "\n")) : Balanced(Split(out, "\n")[n])
    /\ pc = "done" =>
          \A n \in 1..Len(lines) : \A f \in 1..Len(lines[n].fragments) :
              \A c \in 1..Len(lines[n].fragments[f].text) :
                  lines[n].fragments[f].text[c] # "\n"

\* a tag with a newline in it and a quoted value with a newline in it has
\* been displayed
C21_Witness ==
    /\ pc = "done"
    /\ code = ExTagNewlineString
    /\ toks[1].kind = "Tag" /\ NewlineCount(toks[1].raw) = 1
    /\ Len(lines) = 3


\* C22: the scan is one forward pass: the first iteration starts at 0; every
\* iteration emits one token that starts at the cursor and moves the cursor
\* to the token's end, strictly forward; the loop is left when the cursor has
\* reached the end of the text, after no more iterations than the text has
\* characters, and at every cursor inside the text the next iteration moves
\* forward too.
C22_SingleForwardPass ==
    [][/\ (pc = "start" /\ pc' = "scan") => (i' = 0 /\ toks' = <<>>)
       /\ pc = "scan" =>
            IF i < Len(code)
            THEN /\ pc' = "scan" /\ code' = code
                 /\ i' > i
                 /\ i' <= Len(code) + 2
                 /\ toks' = Append(toks, toks'[Len(toks')])
                 /\ toks'[Len(toks')].start = i
                 /\ toks'[Len(toks')].next = i'
                 /\ Len(toks') <= Len(code)
                 /\ i' < Len(code) => TokStep(code, i').next > i'
            ELSE /\ pc' = "render"
                 /\ i' = i /\ toks' = toks]_vars

\* a scan of three tokens has ended with the cursor two past the end of the
\* text: the last token is a string that ends with a backslash
C22_Witness ==
    /\ pc = "done"
    /\ Len(toks) = 3
    /\ toks[1].start = 0
    /\ \A k \in 1..2 : toks[k + 1].start = toks[k].next /\ toks[k].next > toks[k].start
    /\ i = Len(code) + 2

----------------------------------------------------------------------------
(* Properties of the element (Spec), the display flags and the copy button *)

\* the fragments and the filler of the line records, their labels left out
Unlabelled(recs) ==
    [n \in 1..Len(recs) |-> [fragments |-> recs[n].fragments, filler |-> recs[n].filler]]

\* C23: in every rendered state the displayed lines carry the labels 1, 2,
\* 3, ... in line order when the no-lines attribute is absent and no label
\* when it is present, and a step that adds or removes no-lines leaves the
\* number of lines and their fragments as they were.
C23_NoLines ==
    [][/\ isRendered' =>
            \A n \in 1..Len(dom'.codeEl) :
                dom'.codeEl[n].lineNumber
                    = IF HasAttribute(attrs', "no-lines") THEN <<>> ELSE <<ToString(n)>>
       /\ (isRendered /\ HasAttribute(attrs', "no-lines") # HasAttribute(attrs, "no-lines")) =>
            Unlabelled(dom'.codeEl) = Unlabelled(dom.codeEl)]_vars

\* two lines are displayed without labels
C23_Witness ==
    /\ isRendered
    /\ HasAttribute(attrs, "no-lines")
    /\ originalCode = ExFirstLineIndented
    /\ Len(dom.codeEl) = 2
    /\ dom.codeEl[1].lineNumber = <<>> /\ dom.codeEl[2].lineNumber = <<>>
    /\ dom.codeEl[2].fragments # <<>>


\* C24: in every rendered state the text a copy click would write to the
\* clipboard is the text of the displayed line records: their fragments
\* decoded and concatenated, the lines joined with newlines.
C24_CopyIsDisplayed ==
    isRendered => CopyCode(originalCode) = TextOfLines(dom.codeEl)

\* the text of the element was replaced after the render; a click asked to
\* write the displayed text, which is not the captured text as it stood
C24_Witness ==
    /\ isRendered
    /\ originalCode = ExTrailingSpace
    /\ textContent # originalCode
    /\ writes = <<TextOfLines(dom.codeEl)>>
    /\ writes[1] # originalCode


\* C25: the render happens once, at the first connect, and it captures the
\* text and installs one click listener; a later connect changes nothing of
\* the element but its being connected; once rendered, no step captures the
\* text again or adds a listener; a click starts exactly one clipboard write.
C25_RenderOnce ==
    [][/\ (~isRendered /\ isRendered') =>
            /\ ~connected /\ connected'
            /\ originalCode' = textContent
            /\ dom.listeners = 0 /\ dom'.listeners = 1
       /\ ~isRendered' => (dom' = EmptyShadow /\ originalCode' = <<>>)
       /\ isRendered =>
            /\ isRendered'
            /\ originalCode' = originalCode
            /\ dom'.listeners = 1
       /\ (isRendered /\ connected' # connected) =>
            (dom' = dom /\ attrs' = attrs /\ writes' = writes /\ events' = events)
       /\ clicks' # clicks =>
            /\ clicks' = clicks + 1
            /\ Len(writes') = Len(writes) + 1
            /\ writes'[Len(writes')] = CopyCode(originalCode)]_vars

\* a rendered element whose text was replaced is out of its document, and
\* its one click started one write
C25_Witness ==
    /\ isRendered /\ ~connected
    /\ textContent # originalCode
    /\ clicks = 1 /\ Len(writes) = 1
    /\ dom.listeners = 1


\* C26: whenever the reset timer of at least one copy is pending, the copy
\* button shows the label copied! and has the class copied.
C26_CopiedWhilePending ==
    timers > 0 => (dom.copyBtnText = "copied!" /\ dom.copyBtnCopied)

\* C27: once every clipboard write has settled and every reset timer has
\* fired, the button of a rendered element shows the label copy and has not
\* the class copied, whatever clicks came before.
C27_ButtonIdle ==
    (isRendered /\ writes = <<>> /\ timers = 0) =>
        (dom.copyBtnText = "copy" /\ ~dom.copyBtnCopied)

\* two copies succeeded, both timers have fired, the button is idle
C27_Witness ==
    /\ isRendered
    /\ clicks = 2 /\ Len(written) = 2
    /\ writes = <<>> /\ timers = 0
    /\ dom.copyBtnText = "copy"


\* the badge text a first render with the attributes as shows
RenderedBadge(as) == RenderShadow(EmptyShadow, <<>>, Language(as), as).langBadge

\* C28: for every language value the badge text shown after an update is
\* the badge text a first render with that value shows: in every rendered
\* state the badge is that of a render with the current attributes.
C28_BadgeConsistency ==
    isRendered => dom.langBadge = RenderedBadge(attrs)

----------------------------------------------------------------------------
(* Properties of the pipeline and of the tokenizer (SpecPipe): markup *)

\* at item k of the markup m begins one of the references &amp; &lt; &gt;
ReferenceAt(m, k) ==
    \/ Slice(m, k - 1, k + 4) = Amp
    \/ Slice(m, k - 1, k + 3) = Lt
    \/ Slice(m, k - 1, k + 3) = Gt

\* C30: the markup of every token holds no '<' and no '>' but those of the
\* span wrappers the tokenizer wrote, and no '&' but the first character of
\* &amp;, &lt; or &gt;; its text lies inside the spans, and on each of its
\* lines the wrappers are balanced: text of the source opens or closes no
\* element.
C30_MarkupSafety ==
    Len(toks) > 0 =>
        LET m == LastTok.markup
        IN  /\ \A k \in 1..Len(m) :
                 /\ m[k] \in Wrappers \/ Len(m[k]) = 1
                 /\ m[k] \notin {"<", ">"}
                 /\ m[k] = "&" => ReferenceAt(m, k)
                 /\ (m[k] \notin Wrappers /\ m[k] # "\n") => Depth(m, k) = 1
            /\ \A n \in 1..Len(Split(m, "\n")) : Balanced(Split(m, "\n")[n])

\* a text with <, > and & in a tag, a string and plain text is displayed,
\* and the built markup holds none of them bare
C30_Witness ==
    /\ pc = "done"
    /\ code = ExTagNewlineString
    /\ \A k \in 1..Len(out) : out[k] \notin {"<", ">"}
    /\ \E k \in 1..Len(out) : Slice(out, k - 1, k + 3) = Gt
    /\ \E k \in 1..Len(out) : Slice(out, k - 1, k + 4) = Amp
    /\ \E k \in 1..Len(out) : Slice(out, k - 1, k + 3) = Lt

====
